---- MODULE Spec2Model ----
(***************************************************************************)
(* A model of the cBench validation engine of                              *)
(* compiler_gym/envs/llvm/datasets/cbench.py:                              *)
(*   flaky_wrapped_cb  - the flakiness retry loop,                         *)
(*   validator_cb      - one differential validation attempt,              *)
(*   _compile_and_run_bitcode_file - compile stage, process runner and     *)
(*                       runtime-error classifier.                         *)
(* One validation call is modelled: the validator's configuration is drawn *)
(* in Init, the outcomes of the external tools (environment service,       *)
(* compiler, benchmark process, diff) are drawn where the code observes    *)
(* them.                                                                   *)
(***************************************************************************)
EXTENDS Integers, Sequences, FiniteSets, TLC

\* ------------------------------------------------------------------ bounds
MaxFlakiness == 2
MaxOutputFiles == 2
MaxInputFiles == 1
MaxProcesses == 2
MaxThreads == 2

\* ------------------------------------------------------- program constants
timeout_seconds == 300
compilation_timeout_seconds == 60
DefaultNumRuns == 1

\* ----------------------------------------------------------------- helpers
Range(s) == {s[i] : i \in DOMAIN s}

Max(a, b) == IF a >= b THEN a ELSE b

\* str.replace on a command held as a sequence of tokens
Replace(s, old, new) == [i \in DOMAIN s |-> IF s[i] = old THEN new ELSE s[i]]

\* class LlvmSanitizer, with None for "no sanitizer"
LlvmSanitizer == {"ASAN", "TSAN", "MSAN", "UBSAN"}
Sanitizers == {"None"} \cup LlvmSanitizer

_SANITIZER_FLAGS(s) ==
    CASE s = "ASAN" -> <<"-O1", "-g", "-fsanitize=address", "-fno-omit-frame-pointer">>
      [] s = "TSAN" -> <<"-O1", "-g", "-fsanitize=thread">>
      [] s = "MSAN" -> <<"-O1", "-g", "-fsanitize=memory">>
      [] s = "UBSAN" -> <<"-fsanitize=undefined">>
      [] OTHER -> <<>>

\* the benchmark command template and its link options (registration data)
cmd == <<"$BIN", "$D">>
linkopts == <<"-lm">>
cbench_data == "runtime_data"

\* Python values None and "no value bound yet"
NoneV == [kind |-> "None"]
Unbound == [kind |-> "Unbound"]

\* ValidationError(type=..., data=...); a type is a sequence of text pieces
ValidationError(type, data) == [kind |-> "Error", type |-> type, data |-> data]

\* a value of `output: Optional[str]` that is a string: NoneV otherwise
Text(s) == [kind |-> "str", value |-> s]

\* a result that never carries the output
BenchmarkExecutionResultNoOutput(walltime, error, output) ==
    [kind |-> "Result", walltime_seconds |-> walltime, error |-> error, output |-> NoneV]

\* BenchmarkExecutionResult(walltime_seconds, error=None, output=None)
BenchmarkExecutionResult(walltime, error, output) ==
    [kind |-> "Result", walltime_seconds |-> walltime, error |-> error, output |-> output]

\* `if x:` on an Optional[ValidationError] / Optional sanitizer
\* an enum whose first member is falsy (a plain IntEnum starting at 0)
SanitizerSetFirstFalsy(s) == s \notin {"None", "ASAN"}
Truthy(v) == v.kind # "None"
SanitizerSet(s) == s # "None"

\* raw process output: a sequence of pieces; the piece "\\xff" is a byte that
\* is not valid UTF-8
InvalidByte == "\\xff"
RawOutputs ==
    { <<"0a 1b 2c 3d 4e">>, <<"Segmentation fault">>, <<InvalidByte, "abc">>,
      <<InvalidByte, "xyz">> }
ReturnCodes == {0, 1}
MeasuredTimes == {1}
FileContents == {"X", "Y"}

\* ------------------------------------------------------------------- state
VARIABLES
    cfg,        \* the arguments of _make_cBench_validator (fixed per validator)
    unpacked,   \* the runtime-data marker file "unpacked" exists
    fpc,        \* flaky_wrapped_cb: "loop", "attempt", "returned", "raised"
    j,          \* flaky_wrapped_cb: the loop variable
    error,      \* flaky_wrapped_cb: the local variable `error`
    result,     \* what flaky_wrapped_cb returned, or the exception it raised
    attempts,   \* number of calls of validator_cb made so far
    pc,         \* validator_cb / _compile_and_run_bitcode_file: position
    ret,        \* validator_cb: the return value or exception in flight
    cwd,        \* the scratch directory of the attempt and its files
    gs_env,     \* the forked environment copy of the attempt
    forks,      \* number of env.fork() copies created so far
    closes,     \* number of gs_env.close() calls so far
    gold_standard, \* validator_cb: local `gold_standard`
    outcome,    \* validator_cb: local `outcome`
    idx,        \* validator_cb: position in the current `for path in output_paths`
    call,       \* the frame of the running _compile_and_run_bitcode_file call
    log,        \* the steps of the current attempt, in order
    timeouts,   \* history: number of attempts that raised TimeoutError
    lastReturned, \* history: the error most recently returned by an attempt
    succeeded,  \* history: some attempt returned None
    _CBENCH_DOWNLOAD_THREAD_LOCK, \* per process: the thread holding the Lock, or 0
    InterProcessLock, \* the process holding the lock on the lock file, or 0
    lpc,        \* per concurrent caller: its position in the locked download
    env,        \* the state of the caller's environment: "transformed" (the
                \* state under test) or "reset" (the original benchmark)
    runtime_data, \* the runtime-data directory: "absent", "partial" (an
                \* extraction that was cut short) or "complete"
    stdout      \* history: per run of the current attempt, the bytes that
                \* communicate() returned as `stdout` (<<>>: none yet)

vars == <<cfg, unpacked, fpc, j, error, result, attempts, pc, ret, cwd, gs_env,
          forks, closes, gold_standard, outcome, idx, call, log, timeouts,
          lastReturned, succeeded, _CBENCH_DOWNLOAD_THREAD_LOCK,
          InterProcessLock, lpc, env, runtime_data, stdout>>

lockVars == <<_CBENCH_DOWNLOAD_THREAD_LOCK, InterProcessLock, lpc>>

flakyVars == <<fpc, j, error, result, attempts, timeouts, lastReturned, succeeded>>
envVars == <<gs_env, forks, closes>>

\* validators: the arguments of _make_cBench_validator, with the retry
\* budgets in F, up to n output files, the sanitizers in S and the iteration
\* counts in R
Validators(F, n, S, R) ==
    [ flakiness : F,
      compare_output : BOOLEAN,
      output_files : {[i \in 1..k |-> i] : k \in 0..n},
      input_files : {[i \in 1..MaxInputFiles |-> i]},
      validate_result : BOOLEAN,
      pre_execution_callback : BOOLEAN,
      sanitizer : S,
      num_runs : R ]

\* one attempt per call (flakiness = 1), every sanitizer, every number of
\* output files
Configs == Validators({1}, MaxOutputFiles, Sanitizers, {DefaultNumRuns, DefaultNumRuns + 1})

\* every retry budget from -1 up, validators with at most one output file,
\* unsanitized or with the address sanitizer
RetryConfigs == Validators((0 - 1) .. MaxFlakiness, 1, {"None", "ASAN"}, {DefaultNumRuns})

\* concurrent callers of a validator or of CBenchDataset.install: thread t of
\* process p is <<p, t>>
Processes == 1 .. MaxProcesses
Callers == Processes \X (1 .. MaxThreads)

\* no caller besides the one validation call that is modelled step by step
NoCallers ==
    /\ _CBENCH_DOWNLOAD_THREAD_LOCK = [p \in Processes |-> 0]
    /\ InterProcessLock = 0
    /\ lpc = [c \in Callers |-> "idle"]

NoDir == [exists |-> FALSE]

\* a directory kept from an earlier attempt, with its .gold_standard files
CachedDir ==
    [ exists |-> TRUE, finfo |-> 0, bitcode |-> "absent", binary |-> FALSE,
      out |-> [i \in DOMAIN cfg.output_files |-> "absent"],
      gold |-> [i \in DOMAIN cfg.output_files |-> "Y"] ]

\* tempfile.TemporaryDirectory(): a fresh, empty directory
EmptyDir ==
    [ exists |-> TRUE, finfo |-> 0, bitcode |-> "absent", binary |-> FALSE,
      out |-> [i \in DOMAIN cfg.output_files |-> "absent"],
      gold |-> [i \in DOMAIN cfg.output_files |-> "absent"] ]

NoCall == [active |-> FALSE]
Running == [kind |-> "running"]
Return(v) == [kind |-> "return", value |-> v]
Raise(e, msg) == [kind |-> "raise", exc |-> e, msg |-> msg]

\* a step of the attempt: what was done, by which run ("cb" for validator_cb
\* itself, "gs" and "cand" for the two runs), on which output file (0: none)
Event(name, who, i) == <<name, who, i>>
Logged(name, who, i) == Append(log, Event(name, who, i))

\* no run of the attempt has returned from communicate() yet
NoStdout == [who \in {"gs", "cand"} |-> <<>>]

InitWith(C) ==
    /\ cfg \in C
    /\ unpacked \in BOOLEAN
    /\ runtime_data \in (IF unpacked THEN {"complete"} ELSE {"absent", "partial"})
    /\ env = "transformed"
    /\ fpc = "loop"
    /\ j = 1
    /\ error = Unbound
    /\ result = Unbound
    /\ attempts = 0
    /\ pc = "idle"
    /\ ret = Running
    /\ cwd = NoDir
    /\ gs_env = "none"
    /\ forks = 0
    /\ closes = 0
    /\ gold_standard = Unbound
    /\ outcome = Unbound
    /\ idx = 0
    /\ call = NoCall
    /\ log = <<>>
    /\ stdout = NoStdout
    /\ timeouts = 0
    /\ lastReturned = Unbound
    /\ succeeded = FALSE
    /\ NoCallers

Init == InitWith(Configs)
InitRetry == InitWith(RetryConfigs)

\* ------------------------------------------------------- flaky_wrapped_cb
\* a loop that runs one time too many
LoopBoundOffByOne(flakiness) == Max(flakiness, 1) + 1

\* range(1, max(flakiness, 1) + 1): the last value of j
LoopBound(flakiness) == Max(flakiness, 1)

\* `for j in range(...)`: enter the body and call validator_cb(env)
FlakyCall ==
    /\ fpc = "loop"
    /\ j <= LoopBound(cfg.flakiness)
    /\ fpc' = "attempt"
    /\ attempts' = attempts + 1
    /\ pc' = "download"
    /\ ret' = Running
    /\ log' = <<>>
    /\ stdout' = NoStdout
    /\ gold_standard' = Unbound
    /\ outcome' = Unbound
    /\ idx' = 0
    /\ UNCHANGED <<cfg, env, runtime_data, lockVars, unpacked, j, error, result, cwd, envVars, call, timeouts,
                   lastReturned, succeeded>>

\* `except OSError`, which would swallow FileNotFoundError as well
RetriableAnyOSError(exc) == exc \in {"TimeoutError", "FileNotFoundError"}

\* except TimeoutError: the exceptions the retry loop swallows
Retriable(exc) == exc = "TimeoutError"

\* a loop that gives up (bare `return`) on an error that is not a timeout
SucceededOrNotTimeout(v) ==
    v.kind = "None" \/ v.type \notin {<<"Execution timeout">>, <<"Compilation timeout">>}

\* `if not error:`
Succeeded(v) == ~Truthy(v)

\* validator_cb came back: `error = ...; if not error: return`, `except
\* TimeoutError: pass`, the warning, and the next j
FlakyResume ==
    /\ fpc = "attempt"
    /\ pc = "exit"
    /\ pc' = "idle"
    /\ \/ /\ ret.kind = "return"
          /\ error' = ret.value
          /\ IF Succeeded(ret.value)
                THEN /\ fpc' = "returned"
                     /\ result' = NoneV
                     /\ j' = j
                ELSE /\ fpc' = "loop"
                     /\ j' = j + 1
                     /\ UNCHANGED result
          /\ lastReturned' = IF ret.value.kind = "Error" THEN ret.value ELSE lastReturned
          /\ succeeded' = (succeeded \/ ret.value.kind = "None")
          /\ UNCHANGED timeouts
       \/ /\ ret.kind = "raise"
          /\ Retriable(ret.exc)
          /\ fpc' = "loop"
          /\ j' = j + 1
          /\ timeouts' = timeouts + 1
          /\ UNCHANGED <<error, result, lastReturned, succeeded>>
       \/ /\ ret.kind = "raise"
          /\ ~Retriable(ret.exc)
          /\ fpc' = "raised"
          /\ result' = ret
          /\ UNCHANGED <<error, j, timeouts, lastReturned, succeeded>>
    /\ ret' = Running
    /\ gold_standard' = Unbound
    /\ outcome' = Unbound
    /\ idx' = 0
    /\ log' = <<>>
    /\ stdout' = NoStdout
    /\ UNCHANGED <<cfg, env, runtime_data, lockVars, unpacked, attempts, cwd, envVars, call>>

\* the loop is exhausted: `return error`
FlakyReturn ==
    /\ fpc = "loop"
    /\ j > LoopBound(cfg.flakiness)
    /\ IF error = Unbound
          THEN /\ fpc' = "raised"
               /\ result' = Raise("UnboundLocalError", "error")
          ELSE /\ fpc' = "returned"
               /\ result' = error
    /\ UNCHANGED <<cfg, stdout, env, runtime_data, lockVars, unpacked, j, error, attempts, pc, ret, cwd, envVars,
                   gold_standard, outcome, idx, call, log, timeouts, lastReturned,
                   succeeded>>

\* ---------------------------------------------------------- validator_cb
\* the attempt ends by `return v` or by an exception, inside the `with
\* TemporaryDirectory` block: the directory is removed on the way out
\* a directory made with mkdtemp() and never removed
LeaveWithoutCleanup(r) ==
    /\ ret' = r
    /\ pc' = "exit"

Leave(r) ==
    /\ ret' = r
    /\ pc' = "cleanup"

\* download_cBench_runtime_data(): the marker file after the call
download_cBench_runtime_data(marker) == TRUE

\* with _CBENCH_DOWNLOAD_THREAD_LOCK: with InterProcessLock: download
Download ==
    /\ pc = "download"
    /\ unpacked' = download_cBench_runtime_data(unpacked)
    /\ runtime_data' = "complete"
    /\ pc' = "inputs"
    /\ log' = Logged("download", "cb", 0)
    /\ UNCHANGED <<cfg, stdout, env, lockVars, flakyVars, ret, cwd, envVars, gold_standard, outcome, idx, call>>

\* for input_file_name in input_files: raise FileNotFoundError if absent.
\* `present` is what path.is_file() answers for the files of the data dir.
CheckInputs ==
    /\ pc = "inputs"
    /\ \E present \in SUBSET Range(cfg.input_files) :
          IF \E i \in DOMAIN cfg.input_files : cfg.input_files[i] \notin present
             THEN /\ ret' = Raise("FileNotFoundError", "Required benchmark input not found")
                  /\ pc' = "exit"
                  /\ log' = Logged("input_missing", "cb", 0)
             ELSE /\ pc' = "mkdtemp"
                  /\ UNCHANGED <<ret, log>>
    /\ UNCHANGED <<cfg, stdout, env, runtime_data, lockVars, unpacked, flakyVars, cwd, envVars, gold_standard, outcome, idx, call>>

\* with tempfile.TemporaryDirectory(...) as d
Mkdtemp ==
    /\ pc = "mkdtemp"
    /\ cwd' = EmptyDir
    /\ log' = Logged("mkdtemp", "cb", 0)
    /\ pc' = IF cfg.pre_execution_callback THEN "hook" ELSE "oracle"
    /\ UNCHANGED <<cfg, stdout, env, runtime_data, lockVars, unpacked, flakyVars, ret, envVars, gold_standard, outcome, idx, call>>

\* pre_execution_callback(cwd): caller code that may put files into cwd
Hook ==
    /\ pc = "hook"
    /\ \E b \in BOOLEAN : cwd' = [cwd EXCEPT !.binary = b]
    /\ log' = Logged("hook", "cb", 0)
    /\ pc' = "oracle"
    /\ UNCHANGED <<cfg, stdout, env, runtime_data, lockVars, unpacked, flakyVars, ret, envVars, gold_standard, outcome, idx, call>>

\* an oracle that is run for every validator
NeedsOracleAlways == TRUE

\* a gate that forgets the console comparison
NeedsOracleFilesOnly == Len(cfg.output_files) > 0

\* `if compare_output or output_files:`
NeedsOracle == cfg.compare_output \/ Len(cfg.output_files) > 0

\* a call that always runs under the validator's sanitizer and iteration count
NewCallAsRegistered(who, lo, san, runs, next) ==
    [ active |-> TRUE, who |-> who, next |-> next, linkopts |-> lo,
      sanitizer |-> cfg.sanitizer, num_runs |-> cfg.num_runs, error_data |-> <<>>,
      compiles |-> 0, launches |-> 0, stdout |-> <<>>, returncode |-> 0,
      walltime |-> 0, after |-> "", result |-> Unbound, process |-> "none" ]

\* the frame of a new _compile_and_run_bitcode_file call; `process` is the
\* run command's subprocess: "none", "running", "exited" (it ended by itself
\* and was waited for), "reaped" (killed and waited for), "killed" (the signal
\* was sent to the shell but the wait for it gave up)
NewCall(who, lo, san, runs, next) ==
    [ active |-> TRUE, who |-> who, next |-> next, linkopts |-> lo,
      sanitizer |-> san, num_runs |-> runs, error_data |-> <<>>,
      compiles |-> 0, launches |-> 0, stdout |-> <<>>, returncode |-> 0,
      walltime |-> 0, after |-> "", result |-> Unbound, process |-> "none" ]

\* the caller's environment after env.fork(): the copy is independent, the
\* environment it was made from keeps its state
EnvAfterFork(e) == e

\* `if compare_output or output_files: gs_env = env.fork()`
OracleGate ==
    /\ pc = "oracle"
    /\ \/ /\ ~NeedsOracle
          /\ pc' = "cand_write"
          /\ UNCHANGED <<ret, env, envVars, log>>
       \/ /\ NeedsOracle
          /\ gs_env' = "forked"
          /\ env' = EnvAfterFork(env)
          /\ forks' = forks + 1
          /\ log' = Logged("env.fork", "cb", 0)
          /\ pc' = "gs_reset"
          /\ UNCHANGED <<ret, closes>>
       \/ /\ NeedsOracle
          /\ Leave(Raise("TimeoutError", "environment"))
          /\ UNCHANGED <<env, envVars, log>>
    /\ UNCHANGED <<cfg, stdout, runtime_data, lockVars, unpacked, flakyVars, cwd, gold_standard, outcome, idx, call>>

\* a close() placed after the try block instead of in a finally clause
LeaveTryWithoutFinally(r) ==
    /\ ret' = r
    /\ pc' = IF r.kind = "running" THEN "gs_close" ELSE "cleanup"

\* a return or an exception inside `try: ... finally: gs_env.close()`
LeaveTry(r) ==
    /\ ret' = r
    /\ pc' = "gs_close"

\* a reset of the caller's environment in place of the copy
ResetTargetCaller == "env"

\* the environment that reset(benchmark=env.benchmark) is called on
ResetTarget == "gs_env"

\* gs_env.reset(benchmark=env.benchmark)
GsReset ==
    /\ pc = "gs_reset"
    /\ \/ /\ gs_env' = IF ResetTarget = "gs_env" THEN "reset" ELSE gs_env
          /\ env' = IF ResetTarget = "env" THEN "reset" ELSE env
          /\ log' = Logged("gs_env.reset", "cb", 0)
          /\ pc' = "gs_write"
          /\ UNCHANGED ret
       \/ /\ LeaveTry(Raise("TimeoutError", "environment"))
          /\ UNCHANGED <<gs_env, env, log>>
    /\ UNCHANGED <<cfg, stdout, runtime_data, lockVars, unpacked, flakyVars, cwd, forks, closes, gold_standard,
                   outcome, idx, call>>

\* the bitcode an environment serializes: the copy that was reset holds the
\* original benchmark, the caller's environment the state under test
Bitcode(e) == IF e = "reset" THEN "original" ELSE "transformed"

\* gs_env.write_bitcode(cwd / "benchmark.bc") and the call of
\* _compile_and_run_bitcode_file for the gold standard
GsWrite ==
    /\ pc = "gs_write"
    /\ \/ /\ cwd' = [cwd EXCEPT !.bitcode = Bitcode(gs_env)]
          /\ log' = Logged("gs_env.write_bitcode", "cb", 0)
          /\ call' = NewCall("gs", linkopts \o <<"-O2">>, "None", 1, "gs_check")
          /\ pc' = "run_start"
          /\ UNCHANGED ret
       \/ /\ LeaveTry(Raise("TimeoutError", "environment"))
          /\ UNCHANGED <<cwd, log, call>>
    /\ UNCHANGED <<cfg, stdout, env, runtime_data, lockVars, unpacked, flakyVars, envVars, gold_standard, outcome, idx>>

\* the oracle's error passed on as it is
GoldStandardErrorUntagged(e) == e

\* f"Gold standard: {gold_standard.error.type}", data unchanged
GoldStandardError(e) == ValidationError(<<"Gold standard: ">> \o e.type, e.data)

\* `if gold_standard.error:`
OracleFailed(r) == Truthy(r.error)

\* gold_standard = <the call's result>; if gold_standard.error: return ...
GsCheck ==
    /\ pc = "gs_check"
    /\ gold_standard' = call.result
    /\ call' = NoCall
    /\ IF OracleFailed(call.result)
          THEN LeaveTry(Return(GoldStandardError(call.result.error)))
          ELSE LeaveTry(Running)
    /\ UNCHANGED <<cfg, stdout, env, runtime_data, lockVars, unpacked, flakyVars, cwd, envVars, outcome, idx, log>>

\* finally: gs_env.close()
GsClose ==
    /\ pc = "gs_close"
    /\ gs_env' = "closed"
    /\ closes' = closes + 1
    /\ log' = Logged("gs_env.close", "cb", 0)
    /\ idx' = 1
    /\ pc' = IF ret.kind = "running" THEN "gs_files" ELSE "cleanup"
    /\ UNCHANGED <<cfg, stdout, env, runtime_data, lockVars, unpacked, flakyVars, ret, cwd, forks, gold_standard, outcome, call>>

\* a copy in place of the rename: the oracle's file stays where it was
RenameAsCopy(dir, i) == [dir EXCEPT !.gold[i] = dir.out[i]]

\* path.rename(f"{path}.gold_standard")
Rename(dir, i) == [dir EXCEPT !.gold[i] = dir.out[i], !.out[i] = "absent"]

\* for path in output_paths: raise FileNotFoundError if the reference run did
\* not write it, else path.rename(f"{path}.gold_standard")
GsFiles ==
    /\ pc = "gs_files"
    /\ IF idx > Len(cfg.output_files)
          THEN /\ pc' = "cand_write"
               /\ UNCHANGED <<ret, cwd, idx, log>>
          ELSE IF cwd.out[idx] = "absent"
          THEN /\ Leave(Raise("FileNotFoundError", "Expected file not generated"))
               /\ UNCHANGED <<cwd, idx, log>>
          ELSE /\ cwd' = Rename(cwd, idx)
               /\ idx' = idx + 1
               /\ log' = Logged("rename", "cb", idx)
               /\ UNCHANGED <<pc, ret>>
    /\ UNCHANGED <<cfg, stdout, env, runtime_data, lockVars, unpacked, flakyVars, envVars, gold_standard, outcome, call>>

\* the caller's environment after env.write_bitcode(path): serializing reads
\* the state and leaves it as it is
EnvAfterWriteBitcode(e) == e

\* env.write_bitcode(cwd / "benchmark.bc") and the call of
\* _compile_and_run_bitcode_file for the candidate
CandWrite ==
    /\ pc = "cand_write"
    /\ \/ /\ cwd' = [cwd EXCEPT !.bitcode = Bitcode(env)]
          /\ env' = EnvAfterWriteBitcode(env)
          /\ log' = Logged("env.write_bitcode", "cb", 0)
          /\ call' = NewCall("cand", linkopts, cfg.sanitizer, cfg.num_runs, "cand_check")
          /\ pc' = "run_start"
          /\ UNCHANGED ret
       \/ /\ Leave(Raise("TimeoutError", "environment"))
          /\ UNCHANGED <<env, cwd, log, call>>
    /\ UNCHANGED <<cfg, stdout, runtime_data, lockVars, unpacked, flakyVars, envVars, gold_standard, outcome, idx>>

\* a candidate error that is not looked at
CandidateFailedIgnored(r) == FALSE

\* `if outcome.error:`
CandidateFailed(r) == Truthy(r.error)

\* outcome = <the call's result>; if outcome.error: return outcome.error
CandCheck ==
    /\ pc = "cand_check"
    /\ outcome' = call.result
    /\ call' = NoCall
    /\ IF CandidateFailed(call.result)
          THEN Leave(Return(call.result.error))
          ELSE /\ pc' = "validate"
               /\ UNCHANGED ret
    /\ UNCHANGED <<cfg, stdout, env, runtime_data, lockVars, unpacked, flakyVars, cwd, envVars, gold_standard, idx, log>>

\* validate_sha_output(result): the diagnostic, or None
HexOutput == <<"0a 1b 2c 3d 4e">>
validate_sha_output(r) ==
    IF r.output = Text(HexOutput) THEN NoneV
    ELSE [kind |-> "Str", text |-> "Failed to parse hex output"]

\* if validate_result: validate_result(outcome)     (the value is dropped)
Validate ==
    /\ pc = "validate"
    /\ IF cfg.validate_result
          THEN log' = Logged("validate_result", "cb",
                             IF Truthy(validate_sha_output(outcome)) THEN 1 ELSE 0)
          ELSE UNCHANGED log
    /\ pc' = "console"
    /\ UNCHANGED <<cfg, stdout, env, runtime_data, lockVars, unpacked, flakyVars, ret, cwd, envVars, gold_standard,
                   outcome, idx, call>>

\* an error that reports the two outputs the wrong way round
WrongOutputSwapped(expected, actual) ==
    ValidationError(<<"Wrong output">>,
                    ("expected" :> actual) @@ ("actual" :> expected))

\* ValidationError(type="Wrong output", data={"expected": ..., "actual": ...})
WrongOutput(expected, actual) ==
    ValidationError(<<"Wrong output">>,
                    ("expected" :> expected) @@ ("actual" :> actual))

\* if compare_output and gold_standard.output != outcome.output: return ...
Console ==
    /\ pc = "console"
    /\ IF cfg.compare_output
          THEN /\ log' = Logged("console", "cb", 0)
               /\ IF gold_standard.output # outcome.output
                     THEN /\ Leave(Return(WrongOutput(gold_standard.output.value, outcome.output.value)))
                          /\ UNCHANGED idx
                     ELSE /\ pc' = "files"
                          /\ idx' = 1
                          /\ UNCHANGED ret
          ELSE /\ pc' = "files"
               /\ idx' = 1
               /\ UNCHANGED <<ret, log>>
    /\ UNCHANGED <<cfg, stdout, env, runtime_data, lockVars, unpacked, flakyVars, cwd, envVars, gold_standard, outcome, call>>

\* a decoding that keeps the bytes it cannot decode
DecodeKeepingBytes(raw) == raw

\* stdout.decode("utf-8"), with the fallback of the callers
Decode(raw) == IF InvalidByte \in Range(raw) THEN <<"<binary>">> ELSE raw

\* a diff whose exit status is not looked at
DiffReturnCodeIgnored(a, b) == 0

\* what `diff a b` prints, and its exit status
DiffText(a, b) == IF a = b THEN <<>> ELSE <<"< ", a, "> ", b>>
DiffReturnCode(a, b) == IF a = b THEN 0 ELSE 1

OutputNotGenerated(i) ==
    ValidationError(<<"Output not generated">>, ("path" :> i) @@ ("command" :> cmd))
WrongOutputFile(i, diff) ==
    ValidationError(<<"Wrong output (file)">>, ("path" :> i) @@ ("diff" :> diff))

\* for path in output_paths: existence check and diff against the
\* .gold_standard sibling; falling off the end returns None
Files ==
    /\ pc = "files"
    /\ IF idx > Len(cfg.output_files)
          THEN /\ Leave(Return(NoneV))
               /\ UNCHANGED <<idx, log>>
          ELSE IF cwd.out[idx] = "absent"
          THEN /\ Leave(Return(OutputNotGenerated(idx)))
               /\ log' = Logged("is_file", "cb", idx)
               /\ UNCHANGED idx
          ELSE IF DiffReturnCode(cwd.out[idx], cwd.gold[idx]) # 0
          THEN /\ Leave(Return(WrongOutputFile(idx,
                          Decode(DiffText(cwd.out[idx], cwd.gold[idx])))))
               /\ log' = Logged("diff", "cb", idx)
               /\ UNCHANGED idx
          ELSE /\ idx' = idx + 1
               /\ log' = Logged("diff", "cb", idx)
               /\ UNCHANGED <<pc, ret>>
    /\ UNCHANGED <<cfg, stdout, env, runtime_data, lockVars, unpacked, flakyVars, cwd, envVars, gold_standard, outcome, call>>

\* leaving the `with tempfile.TemporaryDirectory` block
Cleanup ==
    /\ pc = "cleanup"
    /\ cwd' = NoDir
    /\ pc' = "exit"
    /\ UNCHANGED <<cfg, stdout, env, runtime_data, lockVars, unpacked, flakyVars, ret, envVars, gold_standard, outcome,
                   idx, call, log>>

\* ------------------------------------------ _compile_and_run_bitcode_file
\* the call returns `r` to validator_cb
CallReturn(r) ==
    /\ call' = [call EXCEPT !.active = FALSE, !.result = r]
    /\ pc' = call.next
    /\ UNCHANGED ret

\* an exception leaves the call; the gold-standard call sits inside
\* validator_cb's try/finally, the candidate call only inside the with block
CallRaise(exc, msg) ==
    /\ call' = NoCall
    /\ ret' = Raise(exc, msg)
    /\ pc' = IF call.who = "gs" THEN "gs_close" ELSE "cleanup"

\* error_data["run_cmd"]: $BIN is the compiled binary or the interpreter
RunCmd(expanded_command, san) ==
    IF SanitizerSet(san)
       THEN Replace(expanded_command, "$BIN", "./a.out")
       ELSE Replace(expanded_command, "$BIN", "lli benchmark.bc")

\* [clang, bitcode, "-o", binary] + _COMPILE_ARGS + linkopts + flags
CompileCmd(lo, san) ==
    <<"clang", "benchmark.bc", "-o", "a.out">> \o lo \o _SANITIZER_FLAGS(san)

\* write _finfo_dataset, build run_env, and take the `if sanitizer:` branch
\* up to the command lines put into error_data
RunStart ==
    /\ pc = "run_start"
    /\ cwd' = [cwd EXCEPT !.finfo = call.num_runs]
    /\ LET run_cmd == RunCmd(Replace(cmd, "$D", cbench_data), call.sanitizer)
       IN  IF SanitizerSet(call.sanitizer)
              THEN /\ call' = [call EXCEPT !.error_data =
                                  ("run_cmd" :> run_cmd) @@
                                  ("compile_cmd" :> CompileCmd(call.linkopts, call.sanitizer))]
                   /\ pc' = "compile"
              ELSE /\ call' = [call EXCEPT !.error_data = ("run_cmd" :> run_cmd)]
                   /\ pc' = "exec"
    /\ UNCHANGED <<cfg, stdout, env, runtime_data, lockVars, unpacked, flakyVars, ret, envVars, gold_standard, outcome,
                   idx, log>>

\* assert not binary.is_file(); clang = subprocess.Popen(compile_cmd, ...)
CompileLaunch ==
    /\ pc = "compile"
    /\ IF cwd.binary
          THEN /\ CallRaise("AssertionError", "not binary.is_file()")
               /\ UNCHANGED log
          ELSE /\ call' = [call EXCEPT !.compiles = @ + 1]
               /\ log' = Logged("compile_launch", call.who, 0)
               /\ pc' = "compile_wait"
               /\ UNCHANGED ret
    /\ UNCHANGED <<cfg, stdout, env, runtime_data, lockVars, unpacked, flakyVars, cwd, envVars, gold_standard, outcome, idx>>

CompilerOutput == <<"clang: error">>

CompilationTimeout(data) ==
    BenchmarkExecutionResult(timeout_seconds,
        ValidationError(<<"Compilation timeout">>,
                        data @@ ("timeout" :> compilation_timeout_seconds)),
        NoneV)
CompilationFailed(data, output) ==
    BenchmarkExecutionResult(timeout_seconds,
        ValidationError(<<"Compilation failed">>, data @@ ("output" :> output)),
        NoneV)

\* clang.communicate(timeout=compilation_timeout_seconds) and what follows
\* it, up to `assert binary.is_file()`
CompileWait ==
    /\ pc = "compile_wait"
    /\ \/ \* the compiler exits 0 and wrote the binary
          /\ cwd' = [cwd EXCEPT !.binary = TRUE]
          /\ log' = Logged("compile_done", call.who, 0)
          /\ pc' = "exec"
          /\ UNCHANGED <<call, ret>>
       \/ \* the compiler exits 0 without a binary: assert binary.is_file()
          /\ CallRaise("AssertionError", "binary.is_file()")
          /\ log' = Logged("compile_done", call.who, 0)
          /\ UNCHANGED cwd
       \/ \* the compiler exits non-zero
          /\ CallReturn(CompilationFailed(call.error_data, CompilerOutput))
          /\ log' = Logged("compile_done", call.who, 0)
          /\ UNCHANGED cwd
       \/ \* TimeoutExpired: kill, and the compiler is reaped within 30 s
          /\ CallReturn(CompilationTimeout(call.error_data))
          /\ log' = Logged("compile_killed", call.who, 0)
          /\ UNCHANGED cwd
       \/ \* TimeoutExpired: kill, and communicate(timeout=30) expires too
          /\ CallRaise("TimeoutExpired", "clang")
          /\ log' = Logged("compile_killed", call.who, 0)
          /\ UNCHANGED cwd
    /\ UNCHANGED <<cfg, stdout, env, runtime_data, lockVars, unpacked, flakyVars, envVars, gold_standard, outcome, idx>>

\* process = subprocess.Popen(error_data["run_cmd"], shell=True, ...)
RunLaunch ==
    /\ pc = "exec"
    /\ call' = [call EXCEPT !.launches = @ + 1, !.process = "running"]
    /\ log' = Logged("run_launch", call.who, 0)
    /\ pc' = "wait"
    /\ UNCHANGED <<cfg, stdout, env, runtime_data, lockVars, unpacked, flakyVars, ret, cwd, envVars, gold_standard,
                   outcome, idx>>

\* the content a run of the benchmark writes to its output files: the
\* reference program writes Y; the program under test may write the same or
\* something else, or nothing
WrittenBy(who) == IF who = "gs" THEN {"absent", "Y"} ELSE {"absent"} \cup FileContents

\* process.communicate(timeout=timeout_seconds) and the except clause
RunWait ==
    /\ pc = "wait"
    /\ \/ \* the process exits 0, having written some of its output files
          \E raw \in RawOutputs, t \in MeasuredTimes,
             w \in [DOMAIN cfg.output_files -> WrittenBy(call.who)] :
             /\ call' = [call EXCEPT !.stdout = raw, !.returncode = 0,
                                     !.walltime = t, !.after = "classify",
                                     !.process = "exited"]
             /\ cwd' = [cwd EXCEPT !.out = [i \in DOMAIN cfg.output_files |->
                                     IF w[i] = "absent" THEN cwd.out[i] ELSE w[i]]]
             /\ log' = Logged("run_done", call.who, 0)
             /\ stdout' = [stdout EXCEPT ![call.who] = raw]
       \/ \* the process exits non-zero
          \E raw \in RawOutputs, t \in MeasuredTimes, rc \in ReturnCodes \ {0} :
             /\ call' = [call EXCEPT !.stdout = raw, !.returncode = rc,
                                     !.walltime = t, !.after = "classify",
                                     !.process = "exited"]
             /\ log' = Logged("run_done", call.who, 0)
             /\ stdout' = [stdout EXCEPT ![call.who] = raw]
             /\ UNCHANGED cwd
       \/ \* TimeoutExpired: kill, and the process is reaped within 30 s
          /\ call' = [call EXCEPT !.after = "timeout", !.process = "reaped"]
          /\ log' = Logged("run_killed", call.who, 0)
          /\ UNCHANGED <<cwd, stdout>>
       \/ \* TimeoutExpired: kill, and communicate(timeout=30) expires too
          /\ call' = [call EXCEPT !.after = "raise", !.process = "killed"]
          /\ log' = Logged("run_killed", call.who, 0)
          /\ UNCHANGED <<cwd, stdout>>
    /\ pc' = "finally"
    /\ UNCHANGED <<cfg, env, runtime_data, lockVars, unpacked, flakyVars, ret, envVars, gold_standard, outcome, idx>>

ExecutionTimeout(data) ==
    BenchmarkExecutionResult(timeout_seconds,
        ValidationError(<<"Execution timeout">>,
                        data @@ ("timeout_seconds" :> timeout_seconds)),
        NoneV)

\* finally: if sanitizer: binary.unlink()   and then the pending exit
RunFinally ==
    /\ pc = "finally"
    /\ cwd' = IF SanitizerSet(call.sanitizer) THEN [cwd EXCEPT !.binary = FALSE] ELSE cwd
    /\ \/ /\ call.after = "classify"
          /\ pc' = "classify"
          /\ UNCHANGED <<call, ret>>
       \/ /\ call.after = "timeout"
          /\ CallReturn(ExecutionTimeout(call.error_data))
       \/ /\ call.after = "raise"
          /\ CallRaise("TimeoutExpired", "process")
    /\ UNCHANGED <<cfg, stdout, env, runtime_data, lockVars, unpacked, flakyVars, envVars, gold_standard, outcome, idx, log>>

Contains(output, marker) == marker \in Range(output)

\* a classifier that looks at the signal messages before the sanitizer reports
ErrorTypeSignalsFirst(san, output, returncode) ==
    IF Contains(output, "Segmentation fault") THEN <<"Segmentation fault">>
    ELSE IF Contains(output, "Illegal Instruction") THEN <<"Illegal Instruction">>
    ELSE IF san = "ASAN" /\ Contains(output, "LeakSanitizer") THEN <<"Memory leak">>
    ELSE IF san = "ASAN" /\ Contains(output, "AddressSanitizer") THEN <<"Memory error">>
    ELSE IF san = "MSAN" /\ Contains(output, "MemorySanitizer") THEN <<"Memory error">>
    ELSE <<"Runtime error (", ToString(returncode), ")">>

\* the error type of a run that exited non-zero
ErrorType(san, output, returncode) ==
    IF san = "ASAN" /\ Contains(output, "LeakSanitizer") THEN <<"Memory leak">>
    ELSE IF san = "ASAN" /\ Contains(output, "AddressSanitizer") THEN <<"Memory error">>
    ELSE IF san = "MSAN" /\ Contains(output, "MemorySanitizer") THEN <<"Memory error">>
    ELSE IF Contains(output, "Segmentation fault") THEN <<"Segmentation fault">>
    ELSE IF Contains(output, "Illegal Instruction") THEN <<"Illegal Instruction">>
    ELSE <<"Runtime error (", ToString(returncode), ")">>

\* decode the output; `if process.returncode:` classify; build the result
RunClassify ==
    /\ pc = "classify"
    /\ LET output == Decode(call.stdout)
       IN  IF call.returncode # 0
              THEN CallReturn(BenchmarkExecutionResult(call.walltime,
                      ValidationError(ErrorType(call.sanitizer, output, call.returncode),
                          call.error_data @@ ("return_code" :> call.returncode)
                                          @@ ("output" :> output)),
                      NoneV))
              ELSE CallReturn(BenchmarkExecutionResult(call.walltime, NoneV, Text(output)))
    /\ UNCHANGED <<cfg, stdout, env, runtime_data, lockVars, unpacked, flakyVars, cwd, envVars, gold_standard, outcome, idx, log>>

\* ------------------------------------------------------------ specification
Next ==
    \/ FlakyCall \/ FlakyResume \/ FlakyReturn
    \/ Download \/ CheckInputs \/ Mkdtemp \/ Hook \/ OracleGate
    \/ GsReset \/ GsWrite \/ GsCheck \/ GsClose \/ GsFiles
    \/ CandWrite \/ CandCheck \/ Validate \/ Console \/ Files \/ Cleanup
    \/ RunStart \/ CompileLaunch \/ CompileWait \/ RunLaunch \/ RunWait
    \/ RunFinally \/ RunClassify

Spec == Init /\ [][Next]_vars

SpecRetry == InitRetry /\ [][Next]_vars

\* --------------------------------------------- the classifier on its own
\* the pieces a captured output may hold, in the order they are printed
Pieces == <<InvalidByte, "LeakSanitizer", "AddressSanitizer", "MemorySanitizer",
            "Segmentation fault", "Illegal Instruction">>
ClassifierOutputs ==
    {SelectSeq(Pieces, LAMBDA p : p \in S) : S \in SUBSET Range(Pieces)}

\* exit statuses of the run command; a negative one is a fatal signal
ClassifierReturnCodes == {0, 1, 139, 0 - 11}

\* a candidate call whose run command has just exited: every sanitizer, exit
\* status and captured output
InitClassifier ==
    /\ cfg \in {c \in Validators({1}, 0, Sanitizers, {DefaultNumRuns}) :
                  ~c.compare_output /\ ~c.validate_result /\ ~c.pre_execution_callback}
    /\ unpacked = TRUE
    /\ runtime_data = "complete"
    /\ env = "transformed"
    /\ fpc = "attempt"
    /\ j = 1
    /\ error = Unbound
    /\ result = Unbound
    /\ attempts = 1
    /\ pc = "classify"
    /\ ret = Running
    /\ cwd = EmptyDir
    /\ gs_env = "none"
    /\ forks = 0
    /\ closes = 0
    /\ gold_standard = Unbound
    /\ outcome = Unbound
    /\ idx = 0
    /\ call \in {[NewCall("cand", linkopts, cfg.sanitizer, cfg.num_runs, "cand_check")
                    EXCEPT !.error_data = ("run_cmd" :> RunCmd(cmd, cfg.sanitizer)),
                           !.launches = 1, !.stdout = raw, !.returncode = rc,
                           !.walltime = t, !.after = "classify",
                           !.process = "exited"] :
                  raw \in ClassifierOutputs, rc \in ClassifierReturnCodes,
                  t \in MeasuredTimes}
    /\ log = <<>>
    /\ stdout = NoStdout
    /\ timeouts = 0
    /\ lastReturned = Unbound
    /\ succeeded = FALSE
    /\ NoCallers

NextClassifier == RunClassify

SpecClassifier == InitClassifier /\ [][NextClassifier]_vars

\* ------------------------------------ the locked download, concurrently
\* Every caller runs
\*     with _CBENCH_DOWNLOAD_THREAD_LOCK:
\*         with fasteners.InterProcessLock(cache_path(...)):
\*             download_cBench_runtime_data()
\* (the first statements of validator_cb and the last of install). A caller
\* is at "start" before the first `with`, holds the thread lock from
\* "thread_locked" on and the file lock from "check" on, is inside
\* download_cBench_runtime_data at "check", "clean", "fetch", "extract" and
\* "touch", and leaves the with blocks at "release_file" and
\* "release_thread".
validationVars ==
    <<cfg, env, fpc, j, error, result, attempts, pc, ret, cwd, gs_env, forks, closes,
      gold_standard, outcome, idx, call, log, timeouts, lastReturned, succeeded,
      stdout>>

At(c, where) == lpc[c] = where
Goto(c, where) == lpc' = [lpc EXCEPT ![c] = where]

\* a Lock that is handed out while another thread holds it
ThreadLockIgnored(p) == TRUE

\* threading.Lock.acquire(): the lock of process p is free
ThreadLockFree(p) == _CBENCH_DOWNLOAD_THREAD_LOCK[p] = 0

\* the advisory lock on the lock file belongs to a process: it is granted when
\* no process holds it, and again to the process that holds it
FileLockGrantable(p) == InterProcessLock \in {0, p}

\* with _CBENCH_DOWNLOAD_THREAD_LOCK:
AcquireThreadLock(c) ==
    /\ At(c, "start")
    /\ ThreadLockFree(c[1])
    /\ _CBENCH_DOWNLOAD_THREAD_LOCK' = [_CBENCH_DOWNLOAD_THREAD_LOCK EXCEPT ![c[1]] = c[2]]
    /\ Goto(c, "thread_locked")
    /\ UNCHANGED <<validationVars, runtime_data, unpacked, InterProcessLock>>

\* with fasteners.InterProcessLock(...):
AcquireFileLock(c) ==
    /\ At(c, "thread_locked")
    /\ FileLockGrantable(c[1])
    /\ InterProcessLock' = c[1]
    /\ Goto(c, "check")
    /\ UNCHANGED <<validationVars, runtime_data, unpacked, _CBENCH_DOWNLOAD_THREAD_LOCK>>

\* a check that never sees the marker
MarkerNeverFound(marker) == FALSE

\* (cbench_data / "unpacked").is_file()
MarkerFound(marker) == marker

\* if (cbench_data / "unpacked").is_file(): return False
CheckMarker(c) ==
    /\ At(c, "check")
    /\ Goto(c, IF MarkerFound(unpacked) THEN "release_file" ELSE "clean")
    /\ UNCHANGED <<validationVars, runtime_data, unpacked, _CBENCH_DOWNLOAD_THREAD_LOCK, InterProcessLock>>

\* if cbench_data.is_dir(): shutil.rmtree(cbench_data)
Rmtree(c) ==
    /\ At(c, "clean")
    /\ unpacked' = FALSE
    /\ runtime_data' = "absent"
    /\ Goto(c, "fetch")
    /\ UNCHANGED <<validationVars, _CBENCH_DOWNLOAD_THREAD_LOCK, InterProcessLock>>

\* tar_contents = io.BytesIO(download(url, sha256)), which may raise
Fetch(c) ==
    /\ At(c, "fetch")
    /\ \/ Goto(c, "extract")
       \/ Goto(c, "release_file")
    /\ UNCHANGED <<validationVars, runtime_data, unpacked, _CBENCH_DOWNLOAD_THREAD_LOCK, InterProcessLock>>

\* tar.extractall(cbench_data.parent); assert cbench_data.is_dir()
\* extractall may raise part way (a full disk), leaving what it wrote
Extract(c) ==
    /\ At(c, "extract")
    /\ \/ /\ runtime_data' = "complete"
          /\ Goto(c, "touch")
       \/ /\ runtime_data' = "partial"
          /\ Goto(c, "release_file")
    /\ UNCHANGED <<validationVars, unpacked, _CBENCH_DOWNLOAD_THREAD_LOCK, InterProcessLock>>

\* (cbench_data / "unpacked").touch(); return True
Touch(c) ==
    /\ At(c, "touch")
    /\ unpacked' = TRUE
    /\ Goto(c, "release_file")
    /\ UNCHANGED <<validationVars, runtime_data, _CBENCH_DOWNLOAD_THREAD_LOCK, InterProcessLock>>

\* leaving `with fasteners.InterProcessLock(...)`, by return or exception
ReleaseFileLock(c) ==
    /\ At(c, "release_file")
    /\ InterProcessLock' = 0
    /\ Goto(c, "release_thread")
    /\ UNCHANGED <<validationVars, runtime_data, unpacked, _CBENCH_DOWNLOAD_THREAD_LOCK>>

\* leaving `with _CBENCH_DOWNLOAD_THREAD_LOCK`
ReleaseThreadLock(c) ==
    /\ At(c, "release_thread")
    /\ _CBENCH_DOWNLOAD_THREAD_LOCK' = [_CBENCH_DOWNLOAD_THREAD_LOCK EXCEPT ![c[1]] = 0]
    /\ Goto(c, "done")
    /\ UNCHANGED <<validationVars, runtime_data, unpacked, InterProcessLock>>

\* every caller has made its call; the marker file may or may not be there
InitDownload ==
    /\ cfg \in {c \in Validators({1}, 0, {"None"}, {DefaultNumRuns}) :
                  ~c.compare_output /\ ~c.validate_result /\ ~c.pre_execution_callback}
    /\ unpacked \in BOOLEAN
    /\ runtime_data \in (IF unpacked THEN {"complete"} ELSE {"absent", "partial"})
    /\ env = "transformed"
    /\ fpc = "loop"
    /\ j = 1
    /\ error = Unbound
    /\ result = Unbound
    /\ attempts = 0
    /\ pc = "idle"
    /\ ret = Running
    /\ cwd = NoDir
    /\ gs_env = "none"
    /\ forks = 0
    /\ closes = 0
    /\ gold_standard = Unbound
    /\ outcome = Unbound
    /\ idx = 0
    /\ call = NoCall
    /\ log = <<>>
    /\ stdout = NoStdout
    /\ timeouts = 0
    /\ lastReturned = Unbound
    /\ succeeded = FALSE
    /\ _CBENCH_DOWNLOAD_THREAD_LOCK = [p \in Processes |-> 0]
    /\ InterProcessLock = 0
    /\ lpc = [c \in Callers |-> "start"]

NextDownload ==
    \E c \in Callers :
        \/ AcquireThreadLock(c) \/ AcquireFileLock(c) \/ CheckMarker(c)
        \/ Rmtree(c) \/ Fetch(c) \/ Extract(c) \/ Touch(c)
        \/ ReleaseFileLock(c) \/ ReleaseThreadLock(c)

SpecDownload == InitDownload /\ [][NextDownload]_vars

\* ------------------------------------------------------------ properties
Done == fpc \in {"returned", "raised"}

\* positions in the attempt's log of the steps named `names` done by `who`
Idx(names, who) == {i \in DOMAIN log : log[i][1] \in names /\ log[i][2] = who}
AllBefore(A, B) == \A a \in A, b \in B : a < b
SomeBefore(A, b) == \E a \in A : a < b

\* C1: the attempt is invoked at most max(b, 1) times, for every budget b
\* (b <= 0 included); once an attempt has returned None the call has returned
\* None and no further attempt is made; with b = 1 a call that returned made
\* exactly one attempt.
C1_Invariant ==
    /\ attempts <= Max(cfg.flakiness, 1)
    /\ succeeded => (fpc = "returned" /\ result = NoneV)
    /\ (fpc = "returned" /\ cfg.flakiness = 1) => attempts = 1
C1_AtMostBudgetAndStopOnSuccess ==
    /\ []C1_Invariant
    /\ [][succeeded => attempts' = attempts]_vars
C1_Witness ==
    /\ fpc = "returned" /\ result = NoneV /\ succeeded
    /\ attempts = 2 /\ cfg.flakiness = 2

\* C2: when every attempt raised TimeoutError, the call has made exactly
\* retry_budget attempts and returns the last observed error.
C2_AllTimeoutsReturnsLastError ==
    (Done /\ timeouts = attempts /\ cfg.flakiness >= 1)
        => (attempts = cfg.flakiness /\ fpc = "returned" /\ result.kind = "Error")

\* C3: when no attempt succeeds, the loop retries after every returned error
\* whatever its kind (so it runs the whole budget), and the value returned is
\* the error returned by the most recent attempt that returned one, also when
\* attempts that raised TimeoutError lie in between or after it.
C3_ReturnsMostRecentError ==
    /\ (fpc = "returned" /\ ~succeeded)
          => /\ result.kind = "Error"
             /\ result = lastReturned
             /\ attempts = Max(cfg.flakiness, 1)
    /\ (fpc = "raised" /\ lastReturned # Unbound) => result.exc # "UnboundLocalError"
C3_Witness ==
    /\ fpc = "returned" /\ ~succeeded /\ result.kind = "Error"
    /\ attempts = 2 /\ timeouts = 1

\* the steps of an attempt, as positions in its log
OracleRunStart == Idx({"run_launch"}, "gs")
OracleRunEnd == Idx({"run_done", "run_killed"}, "gs")
CandidateSteps ==
    Idx({"env.write_bitcode"}, "cb")
        \cup Idx({"compile_launch", "compile_done", "compile_killed",
                  "run_launch", "run_done", "run_killed"}, "cand")
CandidateRunEnd == Idx({"run_done"}, "cand")
Comparisons == Idx({"console", "is_file", "diff"}, "cb")
FileChecks == Idx({"is_file", "diff"}, "cb")

\* the attempt is on its way out: only the finally clause and the removal of
\* the scratch directory are still to come
Finishing == pc \in {"gs_close", "cleanup", "exit"}

IsError(v) == v.kind = "Error"
HasError(r) == r.kind = "Result" /\ r.error.kind = "Error"

\* C4: in one attempt the oracle run, when it happens, is over before the
\* candidate is serialized, compiled or run, and the candidate run (and the
\* oracle run) is over before the console comparison and before any check of
\* an output file.
C4_OracleThenCandidateThenDiff ==
    /\ \A a \in OracleRunStart, c \in CandidateSteps :
          \E e \in OracleRunEnd : a < e /\ e < c
    /\ AllBefore(OracleRunStart, CandidateSteps)
    /\ \A c \in Comparisons : /\ SomeBefore(CandidateRunEnd, c)
                              /\ SomeBefore(Idx({"run_done"}, "gs"), c)
                              /\ AllBefore(CandidateSteps, {c})
    /\ (pc = "cand_write" /\ (cfg.compare_output \/ Len(cfg.output_files) > 0))
          => Idx({"run_done"}, "gs") # {}
C4_Witness ==
    /\ pc = "exit"
    /\ Idx({"console"}, "cb") # {}
    /\ Idx({"diff"}, "cb") # {}
    /\ cfg.sanitizer # "None"

\* C5: an attempt ends at its first failure. Once a return value or an
\* exception is in flight nothing but the way out remains; after an oracle
\* error no file is renamed and the candidate is not touched; a failed
\* compilation launches no run; after a candidate error neither the result
\* checker, the console comparison nor a file check runs; a console mismatch
\* is followed by no file check; the file loop ends at the first file that
\* fails.
C5_TerminalOnFirstFailure ==
    /\ ret.kind # "running" => Finishing
    /\ HasError(gold_standard)
          => /\ Finishing
             /\ CandidateSteps = {} /\ Comparisons = {} /\ Idx({"rename"}, "cb") = {}
    /\ (call # NoCall /\ HasError(call.result)
          /\ call.result.error.type \in {<<"Compilation timeout">>, <<"Compilation failed">>})
          => call.launches = 0
    /\ HasError(outcome)
          => /\ Finishing
             /\ Idx({"validate_result"}, "cb") = {} /\ Comparisons = {}
    /\ (ret.kind = "return" /\ IsError(ret.value) /\ ret.value.type = <<"Wrong output">>)
          => FileChecks = {}
    /\ (ret.kind = "return" /\ IsError(ret.value)
          /\ ret.value.type \in {<<"Output not generated">>, <<"Wrong output (file)">>})
          => /\ \A i \in FileChecks : log[i][3] <= ret.value.data.path
             /\ log[Len(log)] \in {<<"is_file", "cb", ret.value.data.path>>,
                                   <<"diff", "cb", ret.value.data.path>>}
C5_Witness ==
    /\ pc = "exit"
    /\ ret.kind = "return" /\ IsError(ret.value)
    /\ ret.value.type = <<"Wrong output (file)">>
    /\ ret.value.data.path = 1
    /\ Len(cfg.output_files) = 2

\* C6: if the oracle run returns an error, the attempt returns at once the
\* error whose type is "Gold standard: " followed by the oracle error's type
\* and whose data is the oracle error's data, and the candidate is neither
\* serialized, compiled nor run.
C6_GoldStandardErrorTagged ==
    HasError(gold_standard)
        => /\ ret = Return([kind |-> "Error",
                            type |-> <<"Gold standard: ">> \o gold_standard.error.type,
                            data |-> gold_standard.error.data])
           /\ Finishing
           /\ CandidateSteps = {}
C6_Witness ==
    /\ pc = "exit"
    /\ HasError(gold_standard)
    /\ ret.kind = "return"
    /\ ret.value.type = <<"Gold standard: ", "Execution timeout">>
    /\ ret.value.data.timeout_seconds = timeout_seconds

\* the attempt is inside `try: ... finally: gs_env.close()`
InTry ==
    \/ pc \in {"gs_reset", "gs_write", "gs_check", "gs_close"}
    \/ call # NoCall /\ call.active /\ call.who = "gs"

\* C7: every forked copy is closed exactly once before its attempt ends, on
\* every exit path; so at most one copy is open at any time, a copy is open
\* only inside the try block, and none is open between attempts or after the
\* call.
C7_ForkClosedOnce ==
    /\ closes <= forks
    /\ forks <= closes + 1
    /\ (forks = closes + 1) => InTry
    /\ (forks = closes + 1) <=> (gs_env \in {"forked", "reset"})
C7_Witness ==
    /\ pc = "exit"
    /\ ret.kind = "raise" /\ ret.exc = "TimeoutExpired"
    /\ OracleRunStart # {}
    /\ attempts = 2 /\ forks = 2 /\ closes = 2

\* the attempt found a required input file missing
MissingInput == pc = "exit" /\ Idx({"input_missing"}, "cb") # {}

\* C8: a missing required input file raises FileNotFoundError at once:
\* nothing else was done in the attempt (no scratch directory, no hook, no
\* fork, no run), and the retry loop lets the exception through without a
\* further attempt.
C8_Invariant ==
    /\ Idx({"input_missing"}, "cb") # {} => pc = "exit"
    /\ MissingInput
          => /\ ret = Raise("FileNotFoundError", "Required benchmark input not found")
             /\ log = <<Event("download", "cb", 0), Event("input_missing", "cb", 0)>>
             /\ cwd = NoDir
             /\ call = NoCall
             /\ forks = closes
C8_MissingInputFailsFast ==
    /\ []C8_Invariant
    /\ [][MissingInput => (fpc' = "raised" /\ result' = ret /\ attempts' = attempts)]_vars
    /\ [][fpc = "raised" => attempts' = attempts]_vars
C8_Witness ==
    /\ MissingInput
    /\ cfg.flakiness = 2
    /\ attempts = 1

\* C9: the only exceptions that leave a validation call are the two
\* precondition violations (a missing required input file, a binary that
\* exists before compilation); every other failure is a returned error.
C9_OnlyPreconditionFaultsEscape ==
    fpc = "raised"
        => result \in {Raise("FileNotFoundError", "Required benchmark input not found"),
                       Raise("AssertionError", "not binary.is_file()")}

\* C10: a call of _compile_and_run_bitcode_file with a sanitizer launches the
\* compiler exactly once, and the compiler is done before the run command is
\* launched on ./a.out; a call without sanitizer never launches the compiler
\* and runs the bitcode through lli.
C10_CompileOnceBeforeRun ==
    call # NoCall
        => /\ call.compiles <= 1 /\ call.launches <= 1
           /\ call.sanitizer = "None"
                 => /\ call.compiles = 0
                    /\ Idx({"compile_launch"}, call.who) = {}
                    /\ call.launches = 1
                          => call.error_data.run_cmd[1] = "lli benchmark.bc"
           /\ (call.sanitizer # "None" /\ call.launches = 1)
                 => /\ call.compiles = 1
                    /\ Idx({"compile_done"}, call.who) # {}
                    /\ AllBefore(Idx({"compile_launch", "compile_done"}, call.who),
                                 Idx({"run_launch"}, call.who))
                    /\ call.error_data.run_cmd[1] = "./a.out"
           /\ (call.sanitizer # "None" /\ call.result.kind = "Result")
                 => call.compiles = 1
C10_Witness ==
    /\ call # NoCall
    /\ call.sanitizer = "MSAN"
    /\ call.compiles = 1 /\ call.launches = 1
    /\ call.result.kind = "Result" /\ call.result.error = NoneV

\* the call has classified its run
Classified ==
    call # NoCall /\ ~call.active /\ call.after = "classify" /\ call.result.kind = "Result"
RawHas(marker) == marker \in Range(call.stdout) /\ InvalidByte \notin Range(call.stdout)
LeakRule == call.sanitizer = "ASAN" /\ RawHas("LeakSanitizer")
AsanRule == call.sanitizer = "ASAN" /\ RawHas("AddressSanitizer")
MsanRule == call.sanitizer = "MSAN" /\ RawHas("MemorySanitizer")
SanitizerRule == LeakRule \/ AsanRule \/ MsanRule

\* C11: for every sanitizer, exit status and set of markers in the captured
\* output, a non-zero exit status gives the error type of the first rule that
\* matches: ASAN with the leak marker "Memory leak", ASAN with the
\* AddressSanitizer marker "Memory error", MSAN with the MemorySanitizer
\* marker "Memory error", then "Segmentation fault", then "Illegal
\* Instruction", else "Runtime error (<status>)"; exit status 0 gives no
\* error whatever the output holds.
C11_ClassifierFirstMatch ==
    Classified
        => LET e == call.result.error
               rc == call.returncode
           IN  /\ rc = 0 => (e = NoneV /\ call.result.output = Text(Decode(call.stdout)))
               /\ rc # 0 => /\ e.kind = "Error"
                            /\ e.data.return_code = rc
                            /\ call.result.output = NoneV
               /\ (rc # 0 /\ LeakRule) => e.type = <<"Memory leak">>
               /\ (rc # 0 /\ ~LeakRule /\ (AsanRule \/ MsanRule))
                     => e.type = <<"Memory error">>
               /\ (rc # 0 /\ ~SanitizerRule /\ RawHas("Segmentation fault"))
                     => e.type = <<"Segmentation fault">>
               /\ (rc # 0 /\ ~SanitizerRule /\ ~RawHas("Segmentation fault")
                      /\ RawHas("Illegal Instruction"))
                     => e.type = <<"Illegal Instruction">>
               /\ (rc # 0 /\ ~SanitizerRule /\ ~RawHas("Segmentation fault")
                      /\ ~RawHas("Illegal Instruction"))
                     => e.type = <<"Runtime error (", ToString(rc), ")">>
C11_Witness ==
    /\ Classified
    /\ call.sanitizer = "ASAN"
    /\ call.returncode = 139
    /\ {"LeakSanitizer", "AddressSanitizer", "Segmentation fault"} \subseteq Range(call.stdout)
    /\ call.result.error.type = <<"Memory leak">>

\* the run command of the current call did not finish within timeout_seconds
\* and the call is about to leave its try block
RunTimedOut == pc = "finally" /\ call.after # "classify"

\* C12: when the run command does not finish within the timeout, the call
\* kills the subprocess, waits for it, and returns the "Execution timeout"
\* error with walltime_seconds equal to the timeout (not the measured time);
\* the subprocess is not running when the call ends.
C12_TimeoutReturnsExecutionTimeout ==
    [][RunTimedOut
         => /\ log[Len(log)] = Event("run_killed", call.who, 0)
            /\ call' # NoCall
            /\ ~call'.active
            /\ call'.process \in {"exited", "reaped"}
            /\ call'.result.walltime_seconds = timeout_seconds
            /\ call'.result.error.type = <<"Execution timeout">>
            /\ call'.result.error.data.timeout_seconds = timeout_seconds]_vars

\* no attempt is running, or the running one has not made its directory yet
\* or has left its with block
OutsideWith == pc \in {"idle", "download", "inputs", "mkdtemp", "exit"}

\* C13: the scratch directory of an attempt, and with it the binary a.out
\* compiled for a sanitizer run, does not exist once the attempt has ended, by
\* a return value or by an exception; a call whose run command was launched
\* under a sanitizer has removed a.out when it is past its finally clause; the
\* next attempt starts without a directory and makes a fresh, empty one.
C13_Invariant ==
    /\ OutsideWith => cwd = NoDir
    /\ Done => cwd = NoDir
    /\ (call # NoCall /\ SanitizerSet(call.sanitizer) /\ call.launches = 1
          /\ pc \notin {"wait", "finally"}) => ~cwd.binary
C13_ScratchReleased ==
    /\ []C13_Invariant
    /\ [][pc = "mkdtemp" => cwd' = EmptyDir]_vars
C13_Witness ==
    /\ pc = "exit"
    /\ cwd = NoDir
    /\ attempts = 2
    /\ Idx({"mkdtemp"}, "cb") # {}
    /\ Idx({"compile_done"}, "cand") # {}
    /\ ret.kind = "raise" /\ ret.exc = "TimeoutExpired"

\* the candidate ran without error and the attempt is past the console check
PastConsole ==
    /\ pc \in {"files", "cleanup", "exit"}
    /\ outcome.kind = "Result" /\ outcome.error = NoneV
ReturnsError(type) == ret.kind = "return" /\ IsError(ret.value) /\ ret.value.type = type

\* C14: with compare_output set and both runs free of error, the attempt
\* returns "Wrong output", with the oracle's output as expected and the
\* candidate's as actual, exactly when the two (decoded) outputs differ; with
\* equal outputs and no output files the attempt returns None; without
\* compare_output no attempt returns "Wrong output".
C14_ConsoleDiff ==
    /\ (PastConsole /\ cfg.compare_output)
          => /\ gold_standard.kind = "Result" /\ gold_standard.error = NoneV
             /\ (gold_standard.output # outcome.output)
                   <=> ReturnsError(<<"Wrong output">>)
             /\ (gold_standard.output # outcome.output)
                   => /\ ret.value.data.expected = gold_standard.output.value
                      /\ ret.value.data.actual = outcome.output.value
             /\ (gold_standard.output = outcome.output /\ Len(cfg.output_files) = 0
                   /\ pc # "files")
                   => ret = Return(NoneV)
    /\ ~cfg.compare_output => ~ReturnsError(<<"Wrong output">>)
    /\ ReturnsError(<<"Wrong output">>) => PastConsole
C14_Witness ==
    /\ pc = "exit"
    /\ ReturnsError(<<"Wrong output">>)
    /\ ret.value.data.expected = <<"0a 1b 2c 3d 4e">>
    /\ ret.value.data.actual = <<"<binary>">>

\* the declared output files that fail the check: not written by the
\* candidate, or different from the .gold_standard sibling
BadFiles ==
    {i \in DOMAIN cfg.output_files :
        cwd.out[i] = "absent" \/ cwd.out[i] # cwd.gold[i]}
FirstBad == CHOOSE i \in BadFiles : \A k \in BadFiles : i <= k

\* the attempt has returned after a candidate run without error and a passed
\* console check, and its directory is still there
AfterFileLoop ==
    /\ pc = "cleanup"
    /\ PastConsole
    /\ ~ReturnsError(<<"Wrong output">>)

\* C15: after a candidate run without error and a passed console check, the
\* attempt returns for the first declared file, in declared order, that fails:
\* "Output not generated" with its path if the candidate did not write it,
\* "Wrong output (file)" with its path and a non-empty diff if it differs from
\* its .gold_standard sibling; with every declared file present and equal to
\* its sibling the attempt returns None.
C15_FileDiff ==
    AfterFileLoop
        => /\ ret.kind = "return"
           /\ BadFiles = {} => ret.value = NoneV
           /\ BadFiles # {}
                 => /\ IsError(ret.value)
                    /\ ret.value.data.path = FirstBad
                    /\ cwd.out[FirstBad] = "absent"
                          => /\ ret.value.type = <<"Output not generated">>
                             /\ ret.value.data.command = cmd
                    /\ cwd.out[FirstBad] # "absent"
                          => /\ ret.value.type = <<"Wrong output (file)">>
                             /\ ret.value.data.diff # <<>>
C15_Witness ==
    /\ AfterFileLoop
    /\ ReturnsError(<<"Wrong output (file)">>)
    /\ ret.value.data.path = 2
    /\ cwd.out[1] = cwd.gold[1]
    /\ cwd.out[2] = "X" /\ cwd.gold[2] = "Y"

\* the calls of the result checker in the attempt, and those that returned a
\* diagnostic
CheckerCalls == Idx({"validate_result"}, "cb")
Diagnosed == {i \in CheckerCalls : log[i][3] = 1}

\* C16: a configured result checker is called exactly once per attempt, after
\* a candidate run without error and before the console comparison, and when
\* it returns a diagnostic the attempt does not return None.
C16_DiagnosticFailsAttempt ==
    /\ Cardinality(CheckerCalls) <= 1
    /\ CheckerCalls # {} => (cfg.validate_result /\ outcome.kind = "Result"
                               /\ outcome.error = NoneV)
    /\ (cfg.validate_result /\ PastConsole) => Cardinality(CheckerCalls) = 1
    /\ AllBefore(CheckerCalls, Comparisons)
    /\ (Diagnosed # {} /\ pc = "exit") => ret # Return(NoneV)

\* the callers inside download_cBench_runtime_data, holding the file lock,
\* and holding the thread lock
InDownload == {c \in Callers : lpc[c] \in {"check", "clean", "fetch", "extract", "touch"}}
HoldFile == {c \in Callers : lpc[c] \in {"check", "clean", "fetch", "extract", "touch",
                                          "release_file"}}
HoldThread == HoldFile \cup {c \in Callers : lpc[c] \in {"thread_locked", "release_thread"}}
AllDone == \A c \in Callers : lpc[c] = "done"

\* C17: among any threads and processes calling concurrently, at most one is
\* inside download_cBench_runtime_data at any time; a caller holds the file
\* lock only while it holds its process's thread lock (the thread lock is
\* taken first), a caller that is done holds neither, and as long as some
\* caller is not done some caller can take a step (no deadlock).
C17_SerializedDownload ==
    /\ Cardinality(InDownload) <= 1
    /\ Cardinality(HoldFile) <= 1
    /\ \A c \in HoldFile : InterProcessLock = c[1]
    /\ \A c \in Callers :
          c \in HoldThread <=> _CBENCH_DOWNLOAD_THREAD_LOCK[c[1]] = c[2]
    /\ HoldFile = {} => InterProcessLock = 0
    /\ AllDone \/ ENABLED NextDownload
C17_Witness ==
    /\ lpc[<<1, 1>>] = "extract"
    /\ lpc[<<1, 2>>] = "start"
    /\ lpc[<<2, 1>>] = "thread_locked"
    /\ lpc[<<2, 2>>] = "done"

\* C18: a caller that finds the marker file present takes neither the thread
\* lock nor the file lock.
C18_MarkerCheckedBeforeLocks ==
    [][\A c \in Callers :
          (unpacked /\ lpc[c] = "start") => lpc'[c] \in {"start", "done"}]_vars

\* the steps of the oracle stage in the attempt's log
OracleSteps ==
    Idx({"env.fork", "gs_env.reset", "gs_env.write_bitcode", "gs_env.close", "rename"}, "cb")
        \cup Idx({"compile_launch", "compile_done", "compile_killed",
                  "run_launch", "run_done", "run_killed"}, "gs")
ComparisonAsked == cfg.compare_output \/ Len(cfg.output_files) > 0

\* C19: the oracle stage runs exactly when compare_output is set or an output
\* file is declared. Without either the attempt forks no copy, binds no
\* gold_standard and runs the candidate only; with either, the candidate is
\* not touched before a copy was forked, reset and run to its end.
C19_OracleOnlyWhenCompared ==
    /\ ~ComparisonAsked
          => /\ OracleSteps = {}
             /\ forks = 0 /\ gs_env = "none"
             /\ gold_standard = Unbound
             /\ (pc = "exit" /\ ret.kind = "return") => CandidateSteps # {}
    /\ (ComparisonAsked /\ CandidateSteps # {})
          => /\ forks = 1
             /\ \E f \in Idx({"env.fork"}, "cb"), r \in Idx({"gs_env.reset"}, "cb"),
                   l \in Idx({"run_launch"}, "gs"), d \in Idx({"run_done"}, "gs") :
                   /\ f < r /\ r < l /\ l < d
                   /\ \A c \in CandidateSteps : d < c
             /\ gold_standard.kind = "Result"
    /\ OracleSteps # {} => ComparisonAsked
C19_Witness ==
    /\ pc = "exit"
    /\ ~ComparisonAsked
    /\ forks = 0
    /\ Idx({"run_done"}, "cand") # {}
    /\ ret = Return(NoneV)

\* the output files renamed so far in the attempt
Renamed == {log[i][3] : i \in Idx({"rename"}, "cb")}
CandidateCallRunning == call # NoCall /\ call.active /\ call.who = "cand"

\* C20: after an oracle run without error the declared output files are
\* renamed to their .gold_standard siblings in declared order; at the first
\* one the oracle did not write the attempt raises FileNotFoundError and the
\* candidate is never touched; from the start of the candidate call until its
\* run command ends no declared output path exists, and every declared file
\* has its sibling.
C20_GoldFilesRenamed ==
    /\ \A a, b \in Idx({"rename"}, "cb") : a < b => log[a][3] < log[b][3]
    /\ \E k \in 0 .. Len(cfg.output_files) : Renamed = 1 .. k
    /\ Renamed # {} => (gold_standard.kind = "Result" /\ gold_standard.error = NoneV)
    /\ cwd # NoDir
          => \A i \in Renamed : cwd.gold[i] # "absent"
    /\ (cwd # NoDir /\ CandidateSteps = {})
          => \A i \in Renamed : cwd.out[i] = "absent"
    /\ (ret = Raise("FileNotFoundError", "Expected file not generated"))
          => /\ CandidateSteps = {}
             /\ Cardinality(Renamed) < Len(cfg.output_files)
             /\ cwd # NoDir => cwd.out[Cardinality(Renamed) + 1] = "absent"
    /\ (CandidateCallRunning /\ pc \in {"run_start", "compile", "compile_wait", "exec", "wait"})
          => /\ \A i \in DOMAIN cfg.output_files : cwd.out[i] = "absent"
             /\ Renamed = DOMAIN cfg.output_files
C20_Witness ==
    /\ CandidateCallRunning
    /\ pc = "wait"
    /\ Len(cfg.output_files) = 2
    /\ cwd.gold[1] = "Y" /\ cwd.gold[2] = "Y"
    /\ cwd.out[1] = "absent" /\ cwd.out[2] = "absent"

\* the attempt has not reached its oracle stage yet
BeforeOracle == pc \in {"idle", "download", "inputs", "mkdtemp", "hook", "oracle"}

\* C21: every attempt of the retry loop runs the oracle anew. An attempt
\* starts with no gold_standard, no directory and no open copy; what it
\* compares against (gold_standard and the .gold_standard files) was produced
\* by an oracle run of the same attempt, on a copy forked in that attempt; each
\* fork makes a new copy, after the copy of the attempt before was closed.
C21_Invariant ==
    /\ BeforeOracle
          => /\ gold_standard = Unbound
             /\ gs_env \in {"none", "closed"}
             /\ OracleSteps = {}
    /\ pc \in {"idle", "download", "inputs", "mkdtemp"} => cwd = NoDir
    /\ gold_standard # Unbound
          => \E f \in Idx({"env.fork"}, "cb"), l \in Idx({"run_launch"}, "gs") : f < l
    /\ cwd # NoDir
          => \A i \in DOMAIN cfg.output_files : cwd.gold[i] # "absent" => i \in Renamed
    /\ Comparisons # {}
          => (ComparisonAsked /\ Idx({"env.fork"}, "cb") # {}
                /\ Idx({"run_done"}, "gs") # {})
    /\ Cardinality(Idx({"env.fork"}, "cb")) <= 1
    /\ forks <= attempts
C21_OracleRerunEveryAttempt ==
    /\ []C21_Invariant
    /\ [][(pc = "oracle" /\ pc' = "gs_reset")
             => (forks' = forks + 1 /\ gs_env' = "forked")]_vars
    /\ [][pc = "mkdtemp" => cwd' = [exists |-> TRUE, finfo |-> 0, bitcode |-> "absent",
                                   binary |-> FALSE,
                                   out |-> [i \in DOMAIN cfg.output_files |-> "absent"],
                                   gold |-> [i \in DOMAIN cfg.output_files |-> "absent"]]]_vars
C21_Witness ==
    /\ attempts = 2 /\ forks = 2 /\ closes = 2
    /\ pc = "exit"
    /\ Idx({"diff"}, "cb") # {}
    /\ lastReturned # Unbound
    /\ ret = Return(NoneV)

OracleCall == call # NoCall /\ call.who = "gs"
CandidateCall == call # NoCall /\ call.who = "cand"
Started == pc \in {"compile", "compile_wait", "exec", "wait", "finally", "classify"}

\* C22: whatever sanitizer and iteration count the validator has, the oracle
\* call runs with sanitizer None (it launches no compiler and runs the bitcode
\* through lli), with an iteration count of 1, with -O2 added to the link
\* options, on the bitcode of the copy that was reset; the candidate call
\* runs with the validator's sanitizer and iteration count on the bitcode of
\* the caller's environment.
C22_OracleNeverSanitized ==
    /\ OracleCall
          => /\ call.sanitizer = "None"
             /\ call.num_runs = 1
             /\ call.linkopts = linkopts \o <<"-O2">>
             /\ call.compiles = 0
             /\ cwd.bitcode = "original"
             /\ Started => (cwd.finfo = 1 /\ call.error_data.run_cmd[1] = "lli benchmark.bc")
    /\ Idx({"compile_launch", "compile_done", "compile_killed"}, "gs") = {}
    /\ CandidateCall
          => /\ call.sanitizer = cfg.sanitizer
             /\ call.num_runs = cfg.num_runs
             /\ call.linkopts = linkopts
             /\ cwd.bitcode = "transformed"
             /\ Started => cwd.finfo = cfg.num_runs
C22_Witness ==
    /\ OracleCall
    /\ pc = "wait"
    /\ cfg.sanitizer = "ASAN"
    /\ cfg.num_runs = DefaultNumRuns + 1
    /\ cwd.finfo = 1

\* C23: a validation call leaves the caller's environment in the state under
\* test, on every path and over all attempts: reset is applied to the forked
\* copy (which then holds the original benchmark, and is what the oracle
\* serializes), and the candidate is serialized from the unchanged caller's
\* environment.
C23_CallerEnvironmentUnchanged ==
    /\ env = "transformed"
    /\ pc = "gs_write" => gs_env = "reset"
    /\ OracleCall => cwd.bitcode = Bitcode("reset")
    /\ CandidateCall => cwd.bitcode = Bitcode("transformed")
C23_Witness ==
    /\ fpc = "raised"
    /\ result.exc = "TimeoutExpired"
    /\ attempts = 2 /\ forks = 2
    /\ env = "transformed"

\* the compiler of the candidate call was killed at the compilation timeout
CompilerKilled == Idx({"compile_killed"}, "cand") # {}
\* the result of the candidate call, while the call frame or `outcome` holds it
CandidateResult == IF call # NoCall THEN call.result ELSE outcome
NoRunLaunched == Idx({"run_launch", "run_done", "run_killed"}, "cand") = {}

\* C24: under a sanitizer, a compiler that does not finish within the
\* compilation timeout is killed and the call's result is the "Compilation
\* timeout" error; a compiler that exits non-zero gives "Compilation failed"
\* with the compiler's output; in both cases no run command is launched and
\* walltime_seconds is timeout_seconds, as in an "Execution timeout" result.
C24_CompileErrors ==
    /\ (CompilerKilled /\ pc # "compile_wait")
          => /\ HasError(CandidateResult)
             /\ CandidateResult.error.type = <<"Compilation timeout">>
             /\ CandidateResult.error.data.timeout = compilation_timeout_seconds
             /\ CandidateResult.walltime_seconds = timeout_seconds
             /\ NoRunLaunched
    /\ (HasError(CandidateResult)
          /\ CandidateResult.error.type = <<"Compilation failed">>)
          => /\ CandidateResult.error.data.output = CompilerOutput
             /\ CandidateResult.walltime_seconds = timeout_seconds
             /\ NoRunLaunched
    /\ (HasError(CandidateResult)
          /\ CandidateResult.error.type = <<"Execution timeout">>)
          => CandidateResult.walltime_seconds = timeout_seconds

\* C25: whenever the marker file exists the runtime-data directory is
\* completely extracted; a caller that finds no marker deletes whatever
\* directory there is and extracts again; once the marker exists no caller
\* deletes or extracts anything and the marker stays, so the data is
\* materialized at most once over all concurrent callers.
C25_Invariant ==
    /\ unpacked => runtime_data = "complete"
    /\ \A c \in Callers :
          /\ lpc[c] \in {"clean", "fetch", "extract", "touch"} => ~unpacked
          /\ lpc[c] \in {"fetch", "extract"} => runtime_data = "absent"
          /\ lpc[c] = "touch" => runtime_data = "complete"
C25_MarkerMeansComplete ==
    /\ []C25_Invariant
    /\ [][unpacked => (unpacked' /\ runtime_data' = runtime_data)]_vars
    /\ [][\A c \in Callers :
             (lpc[c] = "check" /\ lpc'[c] # "check")
                => lpc'[c] = (IF unpacked THEN "release_file" ELSE "clean")]_vars
C25_Witness ==
    /\ unpacked /\ runtime_data = "complete"
    /\ lpc[<<1, 1>>] = "release_thread"
    /\ lpc[<<1, 2>>] = "start"
    /\ lpc[<<2, 1>>] = "check"
    /\ lpc[<<2, 2>>] = "done"

\* r is no result, or a result with exactly one of error and output set
OneOfErrorAndOutput(r) ==
    r.kind = "Result"
        => /\ (r.error = NoneV) # (r.output = NoneV)
           /\ r.error # NoneV => r.error.kind = "Error"
           /\ r.output # NoneV => r.output.kind = "str"

\* C26: every result returned by _compile_and_run_bitcode_file has exactly
\* one of its fields error and output set: with an error the output field is
\* None (the output of a run that exited with a nonzero status is in the
\* error's data only), without an error the output is there.
C26_ErrorXorOutput ==
    /\ OneOfErrorAndOutput(gold_standard)
    /\ OneOfErrorAndOutput(outcome)
    /\ call # NoCall => OneOfErrorAndOutput(call.result)
    /\ (Classified /\ call.returncode # 0)
          => /\ call.result.output = NoneV
             /\ call.result.error.data.output = Decode(call.stdout)
    /\ (Classified /\ call.returncode = 0)
          => /\ call.result.error = NoneV
             /\ call.result.output = Text(Decode(call.stdout))
C26_Witness ==
    /\ call # NoCall
    /\ HasError(call.result)
    /\ call.result.output = NoneV
    /\ Classified
    /\ call.result.error.data.return_code = 1
    /\ call.result.error.data.output = <<"<binary>">>

\* bytes that stdout.decode("utf-8") rejects
Undecodable(raw) == InvalidByte \in Range(raw)
\* r is the result of a run that exited with status 0
RanClean(r) == r.kind = "Result" /\ r.error = NoneV
BothUndecodable == Undecodable(stdout["gs"]) /\ Undecodable(stdout["cand"])

\* C27: output that does not decode as UTF-8 is replaced by "<binary>"
\* before the result is built, so the console comparison takes any two
\* undecodable outputs for equal: when the oracle's and the candidate's
\* bytes both fail to decode, whether or not they are the same bytes, the
\* attempt does not return "Wrong output".
C27_UndecodableOutputsEqual ==
    /\ (RanClean(gold_standard) /\ Undecodable(stdout["gs"]))
          => gold_standard.output = Text(<<"<binary>">>)
    /\ (RanClean(outcome) /\ Undecodable(stdout["cand"]))
          => outcome.output = Text(<<"<binary>">>)
    /\ (RanClean(gold_standard) /\ ~Undecodable(stdout["gs"]))
          => gold_standard.output = Text(stdout["gs"])
    /\ (RanClean(outcome) /\ ~Undecodable(stdout["cand"]))
          => outcome.output = Text(stdout["cand"])
    /\ BothUndecodable => ~ReturnsError(<<"Wrong output">>)
    /\ (pc = "files" /\ cfg.compare_output)
          => \/ BothUndecodable
             \/ /\ ~Undecodable(stdout["gs"])
                /\ stdout["gs"] = stdout["cand"]
C27_Witness ==
    /\ cfg.compare_output
    /\ pc = "files"
    /\ Idx({"console"}, "cb") # {}
    /\ BothUndecodable
    /\ stdout["gs"] # stdout["cand"]
    /\ RanClean(gold_standard) /\ RanClean(outcome)
    /\ gold_standard.output = outcome.output
====
